---- MODULE Spec2Model ----
(***************************************************************************)
(* Model of inference/run_stochastic_inference.py: the repeated stochastic *)
(* inference driver (checkpoint scanner, configuration mutator, output     *)
(* layout, run dispatcher).                                                *)
(*                                                                         *)
(* Text is modelled as a sequence of tokens (strings); a token never       *)
(* contains one of the separators the code splits on ("-", ".", "=", " "). *)
(***************************************************************************)
EXTENDS Integers, Sequences, FiniteSets, TLC

VARIABLES
    args,          \* the parsed command line (fixed over all invocations)
    baseFile,      \* the file at args.config_path
    modelsDir,     \* the file names in {model_dir}/models
    tmpFile,       \* the file at tmp_config
    dirs,          \* the output directories that exist on disk
    pc,            \* position of the driver
    config,        \* the in-memory RawConfigParser
    training_iter, \* args.training_iter after iteration resolution, as text
    i,             \* loop variable
    output_dir,    \* output_dir of the current repetition
    proc,          \* the external processes running (argument lists)
    scan,          \* result of the last call of find_latest_checkpoint
    inv,           \* number of the current driver invocation
    faults,        \* environment failures injected so far
    exitCode,      \* exit status of the last finished invocation
    hist           \* history of the current invocation (observation only)

vars == <<args, baseFile, modelsDir, tmpFile, dirs, pc, config, training_iter,
          i, output_dir, proc, scan, inv, faults, exitCode, hist>>

----------------------------------------------------------------------------
(* Bounds of the model *)

MaxN == 3

MaxWideN == 10

MaxInvocations == 2

MaxFaults == 1

----------------------------------------------------------------------------
(* Text helpers *)

None == <<"<None>">>

Max(S) == CHOOSE x \in S : \A y \in S : y <= x

DigitChar(d) == <<"0", "1", "2", "3", "4", "5", "6", "7", "8", "9">>[d + 1]

DigitTokens == {DigitChar(d) : d \in 0..9}

DigitValue(t) == CHOOSE d \in 0..9 : DigitChar(d) = t

\* str(n) for a non-negative int
RECURSIVE Digits(_)
Digits(n) == IF n < 10 THEN <<DigitChar(n)>>
             ELSE Digits(n \div 10) \o <<DigitChar(n % 10)>>

\* str(n) for an int
IntText(n) == IF n < 0 THEN <<"-">> \o Digits(-n) ELSE Digits(n)

\* str(t) for a tuple of ints: "(a, b, c)"
RECURSIVE TupleBody(_)
TupleBody(t) == IF Len(t) = 0 THEN <<>>
                ELSE IF Len(t) = 1 THEN IntText(t[1])
                ELSE IntText(t[1]) \o <<",", " ">> \o TupleBody(Tail(t))

TupleText(t) == <<"(">> \o TupleBody(t) \o <<")">>

\* int(text): defined when every token is a digit and there is at least one
IsInt(text) == Len(text) > 0 /\ \A k \in 1..Len(text) : text[k] \in DigitTokens

RECURSIVE IntOf(_)
IntOf(text) == IF Len(text) = 0 THEN 0
               ELSE 10 * IntOf(SubSeq(text, 1, Len(text) - 1))
                    + DigitValue(text[Len(text)])

Positions(text, sep) == {k \in 1..Len(text) : text[k] = sep}

\* text.split(sep)[-1]
SplitLast(text, sep) ==
    LET at == Positions(text, sep)
    IN  IF at = {} THEN text ELSE SubSeq(text, Max(at) + 1, Len(text))

\* text.split(sep)[0]
SplitFirst(text, sep) ==
    LET at == Positions(text, sep)
    IN  IF at = {} THEN text
        ELSE SubSeq(text, 1, (CHOOSE k \in at : \A m \in at : k <= m) - 1)

RECURSIVE LStrip(_)
LStrip(text) == IF Len(text) > 0 /\ text[1] = " " THEN LStrip(Tail(text)) ELSE text

RECURSIVE RStrip(_)
RStrip(text) == IF Len(text) > 0 /\ text[Len(text)] = " "
                THEN RStrip(SubSeq(text, 1, Len(text) - 1)) ELSE text

Strip(text) == LStrip(RStrip(text))

----------------------------------------------------------------------------
(* Files: a file is [ok |-> whether it can be opened, lines |-> its lines] *)

NoFile == [ok |-> FALSE, lines |-> <<>>]

File(lines) == [ok |-> TRUE, lines |-> lines]

----------------------------------------------------------------------------
(* configparser.RawConfigParser: a sequence of sections                    *)
(*   [name |-> section name, opts |-> sequence of <<key, value text>>]     *)

EmptyConfig == <<>>

SectionIndex(c, s) == {j \in 1..Len(c) : c[j].name = s}

has_section(c, s) == SectionIndex(c, s) # {}

add_section(c, s) == Append(c, [name |-> s, opts |-> <<>>])

OptIndex(opts, k) == {j \in 1..Len(opts) : opts[j][1] = k}

has_option(c, s, k) ==
    /\ has_section(c, s)
    /\ OptIndex(c[CHOOSE j \in SectionIndex(c, s) : TRUE].opts, k) # {}

\* config.get(s, k); raises NoSectionError / NoOptionError unless has_option
get(c, s, k) ==
    LET sec == c[CHOOSE j \in SectionIndex(c, s) : TRUE]
    IN  sec.opts[CHOOSE j \in OptIndex(sec.opts, k) : TRUE][2]

\* a key already present keeps its value
SetInOpts_KeepOld(opts, k, v) ==
    IF OptIndex(opts, k) = {} THEN Append(opts, <<k, v>>) ELSE opts

SetInOpts(opts, k, v) ==
    IF OptIndex(opts, k) = {} THEN Append(opts, <<k, v>>)
    ELSE [j \in 1..Len(opts) |-> IF opts[j][1] = k THEN <<k, v>> ELSE opts[j]]

\* config.set(s, k, v); raises NoSectionError unless has_section(c, s)
set(c, s, k, v) ==
    [j \in 1..Len(c) |->
        IF c[j].name = s THEN [c[j] EXCEPT !.opts = SetInOpts(@, k, v)] ELSE c[j]]

IsComment(line) == Len(line) > 0 /\ line[1] \in {"#", ";"}

IsHeader(line) == Len(line) = 3 /\ line[1] = "[" /\ line[3] = "]"

\* one line of the file read into the parser: comments and blank lines are
\* dropped, "[s]" opens a section, "k = v" sets k in the open section
ReadLine(c, line) ==
    IF Len(line) = 0 \/ IsComment(line) THEN c
    ELSE IF IsHeader(line) THEN add_section(c, line[2])
    ELSE IF Len(c) = 0 \/ Positions(line, "=") = {} THEN c
    ELSE LET left == SplitFirst(line, "=")
             key == Strip(left)
             eq  == Len(left) + 1
             val == Strip(SubSeq(line, eq + 1, Len(line)))
         IN  [c EXCEPT ![Len(c)].opts =
                 IF Len(key) = 0 THEN @ ELSE SetInOpts(@, key[1], val)]

RECURSIVE ReadLines(_, _)
ReadLines(c, lines) ==
    IF Len(lines) = 0 THEN c ELSE ReadLines(ReadLine(c, Head(lines)), Tail(lines))

\* config.read(path): a file that cannot be opened is silently ignored
read(c, file) == IF file.ok THEN ReadLines(c, file.lines) ELSE c

RECURSIVE WriteOpts(_)
WriteOpts(opts) ==
    IF Len(opts) = 0 THEN <<>>
    ELSE << <<opts[1][1], " ", "=", " ">> \o opts[1][2] >> \o WriteOpts(Tail(opts))

\* config.write(pf): "[s]", "k = v" for each option, a blank line
RECURSIVE write(_)
write(c) ==
    IF Len(c) = 0 THEN <<>>
    ELSE << <<"[", c[1].name, "]">> >> \o WriteOpts(c[1].opts) \o << <<>> >>
         \o write(Tail(c))


----------------------------------------------------------------------------
(* The file system the driver sees *)

\* the model directory named by the well-formed base configurations
ModelDirPath == <<"/", "data", "/", "my", "-", "model">>

ModelsPath(model_directory) == model_directory \o <<"/", "models">>

\* the file names a models directory may hold
FileUniverse ==
    { <<"model", ".", "ckpt", "-", "5", ".", "meta">>,
      <<"model", ".", "ckpt", "-", "2", "0", ".", "meta">>,
      <<"model", ".", "ckpt", "-", "1", "0", "0", ".", "meta">>,
      <<"net", "-", "v2", ".", "ckpt", "-", "9", ".", "meta">>,
      <<"model", ".", "ckpt", "-", "1", "0", "0", ".", "index">>,
      <<"model", ".", "ckpt", "-", "2", "0", "0", ".", "data">>,
      <<"checkpoint">> }

\* fnmatch(name, '*ckpt*meta')
MatchesCkptMeta(name) ==
    /\ Len(name) > 0
    /\ name[Len(name)] = "meta"
    /\ \E k \in 1..(Len(name) - 1) : name[k] = "ckpt"

\* directory.glob('*ckpt*meta'): the paths of the matching files; only
\* {ModelDirPath}/models exists
Glob(directory, files) ==
    IF directory = ModelsPath(ModelDirPath)
    THEN {directory \o <<"/">> \o name : name \in {f \in files : MatchesCkptMeta(f)}}
    ELSE {}

----------------------------------------------------------------------------
(* Checkpoint scanner *)

ModelDirLines(file) == {k \in 1..Len(file.lines) :
                           \E m \in 1..Len(file.lines[k]) : file.lines[k][m] = "model_dir"}

\* extract_model_directory(args): [err, val]
extract_model_directory(file) ==
    IF ~file.ok THEN [err |-> "IOError", val |-> <<>>]
    ELSE IF ModelDirLines(file) = {} THEN [err |-> "IndexError", val |-> <<>>]
    ELSE LET first == CHOOSE k \in ModelDirLines(file) :
                          \A m \in ModelDirLines(file) : k <= m
         IN  [err |-> "none",
              val |-> LStrip(SplitLast(Strip(file.lines[first]), "="))]

\* [str(x).split('-')[-1] for x in model_directory.glob('*ckpt*meta')]
model_numbers(directory, files) ==
    {SplitLast(x, "-") : x \in Glob(directory, files)}

\* a <= b as Python compares strings of digits
RECURSIVE LexLeq(_, _)
LexLeq(a, b) ==
    IF Len(a) = 0 THEN TRUE
    ELSE IF Len(b) = 0 THEN FALSE
    ELSE IF a[1] # b[1] THEN DigitValue(a[1]) < DigitValue(b[1])
    ELSE LexLeq(Tail(a), Tail(b))

\* the int() lost: the maximum of the suffixes as strings
MaxOfNumbers_AsStrings(numbers) ==
    LET texts == {SplitFirst(x, ".") : x \in numbers}
    IN  IntOf(CHOOSE a \in texts : \A b \in texts : LexLeq(b, a))

\* max([int(x.split('.')[0]) for x in model_numbers])
MaxOfNumbers(numbers) == Max({IntOf(SplitFirst(x, ".")) : x \in numbers})

\* find_latest_checkpoint(args): [err, val]
find_latest_checkpoint(file, files) ==
    LET dir == extract_model_directory(file)
        numbers == model_numbers(ModelsPath(dir.val), files)
    IN  IF dir.err # "none" THEN [err |-> dir.err, val |-> 0]
        ELSE IF \E x \in numbers : ~IsInt(SplitFirst(x, "."))
             THEN [err |-> "ValueError", val |-> 0]
        ELSE IF numbers = {} THEN [err |-> "ValueError", val |-> 0]
        ELSE [err |-> "none", val |-> MaxOfNumbers(numbers)]

----------------------------------------------------------------------------
(* Validation-loss selector: inference/validation_loss_analysis.py is not   *)
(* part of the sources; by its contract it returns the iteration of one of  *)
(* the checkpoints of ckpoint_path, the one judged best by validation loss. *)

analyse_validation_loss(ckpoint_path, files) ==
    {IntOf(SplitFirst(x, ".")) : x \in {y \in model_numbers(ckpoint_path, files) :
                                          IsInt(SplitFirst(y, "."))}}


----------------------------------------------------------------------------
(* Program constants and command-line inputs *)

multi_task_app == "net_multitask.py"

reg_app == "net_regress.py"

class_app == "net_classify.py"

pyconda == "python"

\* args.config_path, as splitext splits it
config_path == [root |-> "config", ext |-> ".ini"]

\* args.output_prefix (its default)
output_prefix == "output"

\* values of -x/--method: the three documented ones, an unrecognized one and
\* the default of an unset flag
Methods == {"multi", "class", "reg", "foo", "<None>"}

\* values of -e/--evaluation_set
EvaluationSets == {"T", "V", "I", "Z"}

\* values of -i/--training_iter: unset, or an explicit iteration
TrainingIters == {None, <<"7">>}

SystemLines == << <<"[", "SYSTEM", "]">>,
                  <<"model_dir", " ", "=", " ">> \o ModelDirPath,
                  <<"#", "model_dir", "=", "/", "old">>,
                  <<"cuda_devices", "=", "0">> >>

NetworkLines == << <<>>,
                   <<"[", "NETWORK", "]">>,
                   <<"name", " ", "=", " ", "vgg_mt_learned">>,
                   <<"batch_size", "=", "1">> >>

InferenceLines == << <<"[", "INFERENCE", "]">>,
                     <<"border", " ", "=", " ", "(", "8", ",", " ", "8", ")">>,
                     <<"save_seg_dir", " ", "=", " ", "old_output">> >>

\* the base configuration files the driver is started on: well-formed without
\* and with an INFERENCE section, one without a model_dir key, an unreadable one
BaseFiles ==
    { File(SystemLines \o NetworkLines),
      File(SystemLines \o NetworkLines \o InferenceLines),
      File(<< <<"[", "SYSTEM", "]">>, <<"cuda_devices", "=", "0">> >> \o NetworkLines),
      NoFile }

\* the contents of {model_dir}/models the driver is started on
ModelsDirChoices ==
    { {},
      { <<"model", ".", "ckpt", "-", "5", ".", "meta">>,
        <<"model", ".", "ckpt", "-", "2", "0", ".", "meta">>,
        <<"model", ".", "ckpt", "-", "2", "0", "0", ".", "data">>,
        <<"checkpoint">> } }

----------------------------------------------------------------------------
(* Pure steps of the driver *)

\* int(np.log10(n)): the number of decimal digits of n, less one
RECURSIVE Log10Floor(_)
Log10Floor(n) == IF n < 10 THEN 0 ELSE 1 + Log10Floor(n \div 10)

\* n_to_zfill = int(np.log10(int(args.n_evaluations)) + 1)
n_to_zfill(n_evaluations) == Log10Floor(n_evaluations) + 1

\* the padding lost: str(i) alone
zfill_NoPad(text, width) == text

\* text.zfill(width)
RECURSIVE zfill(_, _)
zfill(text, width) == IF Len(text) < width THEN zfill(<<"0">> \o text, width) ELSE text

\* the elif on 'V' lost: only 'T' is told apart
EvalSet_NoValidation(flag) == IF flag = "T" THEN "training" ELSE "inference"

\* the if/elif chain on args.evaluation_set
EvalSet(flag) ==
    IF flag = "T" THEN "training"
    ELSE IF flag = "V" THEN "validation"
    ELSE IF flag = "I" THEN "inference"
    ELSE "inference"

\* root_output = os.path.join(args.output_prefix, eval_set)
root_output(flag) == <<output_prefix, "/", EvalSet(flag)>>

\* os.path.join(root_output, 'output_iter_' + str(i).zfill(n_to_zfill))
OutputDir(flag, n_evaluations, k) ==
    root_output(flag) \o <<"/", "output_iter_">>
        \o zfill(Digits(k), n_to_zfill(n_evaluations))

\* tmp_config = os.path.splitext(args.config_path)[0] + '_tmp.ini'
tmp_config == config_path.root \o "_tmp.ini"

\* the elif branch lost: only 'multi' is told apart
Program_NoClass(method) == IF method = "multi" THEN multi_task_app ELSE reg_app

\* the if/elif chain on args.method
Program(method) ==
    IF method = "multi" THEN multi_task_app
    ELSE IF method = "class" THEN class_app
    ELSE reg_app

\* system_command of calling_function
system_command(interpreter, app, cfg) == <<interpreter, app, "inference", "-c", cfg>>

\* the config.set calls before the loop
BaseOverrides(c, flag, iter) ==
    LET c0 == IF has_section(c, "INFERENCE") THEN c ELSE add_section(c, "INFERENCE")
        c1 == set(c0, "INFERENCE", "dataset_to_infer", <<EvalSet(flag)>>)
        c2 == set(c1, "INFERENCE", "inference_iter", iter)
        c3 == set(c2, "INFERENCE", "border", TupleText(<<0, 0, 0>>))
        c4 == set(c3, "INFERENCE", "output_interp_order", IntText(-1))
    IN  set(c4, "INFERENCE", "spatial_window_size", TupleText(<<200, 200>>))


----------------------------------------------------------------------------
(* The driver *)

NoScan == [err |-> "unset", val |-> 0]

\* what one invocation has done so far; completed and startDirs are kept to
\* relate an invocation to the earlier ones
NewHist(done, existing) ==
    [ spawned     |-> <<>>,   \* every call of calling_function (see Spawned)
      considered  |-> <<>>,   \* every output_dir computed
      skipped     |-> {},     \* indices left by the else: continue
      created     |-> {},     \* indices whose output_dir os.makedirs created
      rewritten   |-> {},     \* indices whose save_seg_dir was written
      baseWritten |-> FALSE,  \* the temporary configuration was written (l.94)
      baseConfig  |-> <<>>,   \* the configuration written then
      selectorCalls |-> 0,    \* calls of analyse_validation_loss
      completed   |-> done,   \* output dirs whose external program exited 0
      startDirs   |-> existing ]

Init ==
    /\ args \in [ evaluation_set : EvaluationSets,
                  training_iter  : TrainingIters,
                  n_evaluations  : 1..MaxN,
                  method         : Methods ]
    /\ baseFile \in BaseFiles
    /\ modelsDir \in ModelsDirChoices
    /\ tmpFile = NoFile
    /\ dirs = {}
    /\ pc = "ReadConfig"
    /\ config = EmptyConfig
    /\ training_iter = args.training_iter
    /\ i = 0
    /\ output_dir = <<>>
    /\ proc = <<>>
    /\ scan = NoScan
    /\ inv = 1
    /\ faults = 0
    /\ exitCode = 0
    /\ hist = NewHist({}, {})

\* an uncaught exception ends the interpreter with status 1
Raise ==
    /\ pc' = "Aborted"
    /\ exitCode' = 1

\* l.58-59: config.read(args.config_path)
ReadConfig ==
    /\ pc = "ReadConfig"
    /\ config' = read(EmptyConfig, baseFile)
    /\ pc' = "ResolveIteration"
    /\ UNCHANGED <<args, baseFile, modelsDir, tmpFile, dirs, training_iter, i,
                   output_dir, proc, scan, inv, faults, exitCode, hist>>

\* the test lost: the selector is asked whatever -i says
training_iter_is_None_Always(a) == TRUE

\* l.63: args.training_iter is None
training_iter_is_None(a) == a.training_iter = None

\* l.63-69: the iteration is the selector's unless -i gave one
ResolveIteration ==
    /\ pc = "ResolveIteration"
    /\ IF ~training_iter_is_None(args)
       THEN /\ pc' = "WriteBaseConfig"
            /\ UNCHANGED <<training_iter, exitCode, hist>>
       ELSE IF ~has_option(config, "SYSTEM", "model_dir")
       THEN /\ Raise
            /\ UNCHANGED <<training_iter, hist>>
       ELSE LET model_dir == get(config, "SYSTEM", "model_dir")
                best == analyse_validation_loss(ModelsPath(model_dir), modelsDir)
            IN  /\ hist' = [hist EXCEPT !.selectorCalls = @ + 1]
                /\ IF best = {}
                   THEN /\ Raise
                        /\ UNCHANGED training_iter
                   ELSE /\ \E it \in best : training_iter' = IntText(it)
                        /\ pc' = "WriteBaseConfig"
                        /\ UNCHANGED exitCode
    /\ UNCHANGED <<args, baseFile, modelsDir, tmpFile, dirs, config, i,
                   output_dir, proc, scan, inv, faults>>

\* l.72-97: the overrides are set and the temporary configuration is written;
\* open(tmp_config, 'w') may fail
WriteBaseConfig ==
    /\ pc = "WriteBaseConfig"
    /\ config' = BaseOverrides(config, args.evaluation_set, training_iter)
    /\ \/ /\ tmpFile' = File(write(config'))
          /\ hist' = [hist EXCEPT !.baseWritten = TRUE, !.baseConfig = config']
          /\ pc' = "CheckOutputDir"
          /\ UNCHANGED <<faults, exitCode>>
       \/ /\ faults < MaxFaults
          /\ faults' = faults + 1
          /\ Raise
          /\ UNCHANGED <<tmpFile, hist>>
    /\ i' = 0
    /\ UNCHANGED <<args, baseFile, modelsDir, dirs, training_iter,
                   output_dir, proc, scan, inv>>

\* the existence test lost: every output_dir is taken as missing
exists_Never(path) == FALSE

\* l.102: os.path.exists(output_dir)
exists(path) == path \in dirs

\* l.99-108: next index of range(n_evaluations); an existing output_dir is
\* skipped, a missing one is created; os.makedirs may fail
CheckOutputDir ==
    /\ pc = "CheckOutputDir"
    /\ IF i >= args.n_evaluations
       THEN /\ pc' = "Done"
            /\ exitCode' = 0
            /\ UNCHANGED <<i, output_dir, dirs, faults, hist>>
       ELSE /\ output_dir' = OutputDir(args.evaluation_set, args.n_evaluations, i)
            /\ IF exists(output_dir')
               THEN /\ i' = i + 1
                    /\ hist' = [hist EXCEPT !.considered = Append(@, output_dir'),
                                            !.skipped = @ \cup {i}]
                    /\ UNCHANGED <<pc, dirs, faults, exitCode>>
               ELSE \/ /\ dirs' = dirs \cup {output_dir'}
                       /\ hist' = [hist EXCEPT !.considered = Append(@, output_dir'),
                                               !.created = @ \cup {i}]
                       /\ pc' = "MutateConfig"
                       /\ UNCHANGED <<i, faults, exitCode>>
                    \/ /\ faults < MaxFaults
                       /\ faults' = faults + 1
                       /\ hist' = [hist EXCEPT !.considered = Append(@, output_dir')]
                       /\ Raise
                       /\ UNCHANGED <<i, dirs>>
    /\ UNCHANGED <<args, baseFile, modelsDir, tmpFile, config, training_iter,
                   proc, scan, inv>>

\* the read-back lost: save_seg_dir is set in a fresh parser, which is written
MutateConfig_Fresh ==
    /\ pc = "MutateConfig"
    /\ config' = set(add_section(EmptyConfig, "INFERENCE"), "INFERENCE",
                     "save_seg_dir", output_dir)
    /\ tmpFile' = File(write(config'))
    /\ hist' = [hist EXCEPT !.rewritten = @ \cup {i}]
    /\ pc' = "Dispatch"
    /\ UNCHANGED <<args, baseFile, modelsDir, dirs, training_iter, i,
                   output_dir, proc, scan, inv, faults, exitCode>>

\* l.110-116: the temporary configuration is read back, save_seg_dir is set
\* and the file is written again; config.set raises NoSectionError on a
\* configuration without INFERENCE, open(tmp_config, 'w') may fail
MutateConfig ==
    /\ pc = "MutateConfig"
    /\ LET c == read(EmptyConfig, tmpFile)
       IN  IF ~has_section(c, "INFERENCE")
           THEN /\ Raise
                /\ UNCHANGED <<config, tmpFile, faults, hist>>
           ELSE /\ config' = set(c, "INFERENCE", "save_seg_dir", output_dir)
                /\ \/ /\ tmpFile' = File(write(config'))
                      /\ hist' = [hist EXCEPT !.rewritten = @ \cup {i}]
                      /\ pc' = "Dispatch"
                      /\ UNCHANGED <<faults, exitCode>>
                   \/ /\ faults < MaxFaults
                      /\ faults' = faults + 1
                      /\ Raise
                      /\ UNCHANGED <<tmpFile, hist>>
    /\ UNCHANGED <<args, baseFile, modelsDir, dirs, training_iter, i,
                   output_dir, proc, scan, inv>>

\* one call of calling_function, as observed: the index, the argument list and
\* the save_seg_dir the file at tmp_config holds at that moment
Spawned(k, argv, file) ==
    LET c == read(EmptyConfig, file)
    IN  [ index |-> k,
          argv  |-> argv,
          save_seg_dir |-> IF has_option(c, "INFERENCE", "save_seg_dir")
                           THEN get(c, "INFERENCE", "save_seg_dir") ELSE <<>> ]

\* a failed start is tried again for the same index
Dispatch_Retry ==
    /\ pc = "Dispatch"
    /\ LET argv == system_command(pyconda, Program(args.method), tmp_config)
       IN  /\ hist' = [hist EXCEPT !.spawned = Append(@, Spawned(i, argv, tmpFile))]
           /\ \/ /\ proc' = Append(proc, argv)
                 /\ pc' = "Running"
                 /\ UNCHANGED faults
              \/ /\ faults < MaxFaults
                 /\ faults' = faults + 1
                 /\ pc' = "Dispatch"
                 /\ UNCHANGED proc
    /\ UNCHANGED <<args, baseFile, modelsDir, tmpFile, dirs, config, i,
                   training_iter, output_dir, scan, inv, exitCode>>

\* a failed start removes the output directory of its index
Dispatch_Cleanup ==
    /\ pc = "Dispatch"
    /\ LET argv == system_command(pyconda, Program(args.method), tmp_config)
       IN  /\ hist' = [hist EXCEPT !.spawned = Append(@, Spawned(i, argv, tmpFile))]
           /\ \/ /\ proc' = Append(proc, argv)
                 /\ pc' = "Running"
                 /\ UNCHANGED <<i, faults, dirs>>
              \/ /\ faults < MaxFaults
                 /\ faults' = faults + 1
                 /\ dirs' = dirs \ {output_dir}
                 /\ i' = i + 1
                 /\ pc' = "CheckOutputDir"
                 /\ UNCHANGED proc
    /\ UNCHANGED <<args, baseFile, modelsDir, tmpFile, config,
                   training_iter, output_dir, scan, inv, exitCode>>

\* the wait lost: the external program is started and the loop goes on
Dispatch_NoWait ==
    /\ pc = "Dispatch"
    /\ LET argv == system_command(pyconda, Program(args.method), tmp_config)
       IN  /\ hist' = [hist EXCEPT !.spawned = Append(@, Spawned(i, argv, tmpFile))]
           /\ proc' = Append(proc, argv)
    /\ i' = i + 1
    /\ pc' = "CheckOutputDir"
    /\ UNCHANGED <<args, baseFile, modelsDir, tmpFile, dirs, config,
                   training_iter, output_dir, scan, inv, faults, exitCode>>

\* l.118-128 and calling_function: call(system_command) starts the external
\* program and waits for it; when it cannot be started, call raises, the
\* bare except catches it and the loop continues
Dispatch ==
    /\ pc = "Dispatch"
    /\ LET argv == system_command(pyconda, Program(args.method), tmp_config)
       IN  /\ hist' = [hist EXCEPT !.spawned = Append(@, Spawned(i, argv, tmpFile))]
           /\ \/ /\ proc' = Append(proc, argv)
                 /\ pc' = "Running"
                 /\ UNCHANGED <<i, faults>>
              \/ /\ faults < MaxFaults
                 /\ faults' = faults + 1
                 /\ i' = i + 1
                 /\ pc' = "CheckOutputDir"
                 /\ UNCHANGED proc
    /\ UNCHANGED <<args, baseFile, modelsDir, tmpFile, dirs, config,
                   training_iter, output_dir, scan, inv, exitCode>>

\* the external program exits and call returns its status, which
\* calling_function drops: status 0, or any other status
ProcessExit ==
    /\ pc = "Running"
    /\ proc' = Tail(proc)
    /\ \/ /\ hist' = [hist EXCEPT !.completed = @ \cup {output_dir}]
          /\ UNCHANGED faults
       \/ /\ faults < MaxFaults
          /\ faults' = faults + 1
          /\ UNCHANGED hist
    /\ i' = i + 1
    /\ pc' = "CheckOutputDir"
    /\ UNCHANGED <<args, baseFile, modelsDir, tmpFile, dirs, config,
                   training_iter, output_dir, scan, inv, exitCode>>

\* the driver is run again with the same arguments on the same file system
Rerun ==
    /\ pc \in {"Done", "Aborted"}
    /\ inv < MaxInvocations
    /\ inv' = inv + 1
    /\ pc' = "ReadConfig"
    /\ config' = EmptyConfig
    /\ training_iter' = args.training_iter
    /\ i' = 0
    /\ output_dir' = <<>>
    /\ hist' = NewHist(hist.completed, dirs)
    /\ UNCHANGED <<args, baseFile, modelsDir, tmpFile, dirs, proc, scan,
                   faults, exitCode>>

Next ==
    \/ ReadConfig
    \/ ResolveIteration
    \/ WriteBaseConfig
    \/ CheckOutputDir
    \/ MutateConfig
    \/ Dispatch
    \/ ProcessExit
    \/ Rerun

Spec == Init /\ [][Next]_vars


----------------------------------------------------------------------------
(* The driver on the larger repetition counts, where the zero padding acts: *)
(* the same steps, started on one well-formed configuration                 *)

LayoutInit ==
    /\ args \in [ evaluation_set : EvaluationSets,
                  training_iter  : {<<"7">>},
                  n_evaluations  : 1..MaxWideN,
                  method         : {"<None>"} ]
    /\ baseFile = File(SystemLines \o NetworkLines)
    /\ modelsDir = {}
    /\ tmpFile = NoFile
    /\ dirs = {}
    /\ pc = "ReadConfig"
    /\ config = EmptyConfig
    /\ training_iter = args.training_iter
    /\ i = 0
    /\ output_dir = <<>>
    /\ proc = <<>>
    /\ scan = NoScan
    /\ inv = 1
    /\ faults = 0
    /\ exitCode = 0
    /\ hist = NewHist({}, {})

LayoutSpec == LayoutInit /\ [][Next]_vars

----------------------------------------------------------------------------
(* The checkpoint scanner called on its own: find_latest_checkpoint is       *)
(* defined by the driver's module and not called by its main block          *)

ScanInit ==
    /\ args \in [ evaluation_set : {"I"},
                  training_iter  : {None},
                  n_evaluations  : {1},
                  method         : {"<None>"} ]
    /\ baseFile \in BaseFiles
    /\ modelsDir \in SUBSET FileUniverse
    /\ tmpFile = NoFile
    /\ dirs = {}
    /\ pc = "Scan"
    /\ config = EmptyConfig
    /\ training_iter = None
    /\ i = 0
    /\ output_dir = <<>>
    /\ proc = <<>>
    /\ scan = NoScan
    /\ inv = 1
    /\ faults = 0
    /\ exitCode = 0
    /\ hist = NewHist({}, {})

\* l.30-37: one call of find_latest_checkpoint(args)
Scan ==
    /\ pc = "Scan"
    /\ scan' = find_latest_checkpoint(baseFile, modelsDir)
    /\ pc' = "Scanned"
    /\ UNCHANGED <<args, baseFile, modelsDir, tmpFile, dirs, config,
                   training_iter, i, output_dir, proc, inv, faults, exitCode, hist>>

ScanNext == Scan

ScanSpec == ScanInit /\ [][ScanNext]_vars


----------------------------------------------------------------------------
(* Properties *)

Terminated == pc \in {"Done", "Aborted"}

Indices == 0..(args.n_evaluations - 1)

SpawnedIndices == {hist.spawned[e].index : e \in 1..Len(hist.spawned)}

\* C1: an index whose output directory exists when the invocation reaches it
\* (every directory on disk when the invocation started is still there then)
\* is skipped: its save_seg_dir is not written and nothing is dispatched for it.
C1_ResumeSkipsExisting ==
    \A k \in Indices :
        OutputDir(args.evaluation_set, args.n_evaluations, k) \in hist.startDirs
        => /\ k \notin hist.rewritten
           /\ k \notin SpawnedIndices
           /\ (k < i \/ pc = "Done" => k \in hist.skipped)

C1_Witness ==
    /\ inv = 2
    /\ pc = "Done"
    /\ hist.skipped # {}
    /\ hist.skipped # Indices
    /\ hist.baseWritten

\* the number of decimal digits of n: floor(log10(n)) + 1
DecimalWidth(n) == CHOOSE w \in 1..6 : 10^(w - 1) <= n /\ n < 10^w

\* C2: the output directories an invocation considers are those of the indices
\* 0, 1, ... in order, never more than N and exactly N once the loop is through,
\* each {output_prefix}/{eval_set}/output_iter_{index} with the index in
\* floor(log10(N)) + 1 digits; so they are pairwise distinct and equally long.
C2_OutputLayout ==
    LET N == args.n_evaluations
        seen == hist.considered
    IN  /\ Len(seen) <= N
        /\ (pc = "Done" => Len(seen) = N)
        /\ \A k \in 1..Len(seen) :
              LET idx == SubSeq(seen[k], 6, Len(seen[k]))
              IN  /\ SubSeq(seen[k], 1, 5)
                       = <<"output", "/", seen[k][3], "/", "output_iter_">>
                  /\ seen[k][3] \in {"training", "validation", "inference"}
                  /\ Len(idx) = DecimalWidth(N)
                  /\ IsInt(idx)
                  /\ IntOf(idx) = k - 1
        /\ \A k, m \in 1..Len(seen) :
              /\ Len(seen[k]) = Len(seen[m])
              /\ (k # m => seen[k] # seen[m])
        /\ n_to_zfill(10) = 2
        /\ n_to_zfill(100) = 3

C2_Witness ==
    /\ pc = "Done"
    /\ args.n_evaluations = 10
    /\ Len(hist.considered) = 10
    /\ hist.considered[10] = <<"output", "/", "validation", "/", "output_iter_", "0", "9">>

\* C3 (as claimed): once the loop has started, the invocation ends only after
\* all N repetitions were considered.
C3_Claim ==
    (hist.baseWritten /\ Terminated) => Len(hist.considered) = args.n_evaluations

\* C4 (as claimed): once the temporary configuration is written, the driver
\* ends only in Done, with exit status 0.
C4_Claim ==
    (hist.baseWritten /\ pc \notin {"CheckOutputDir", "MutateConfig", "Dispatch", "Running"})
        => (pc = "Done" /\ exitCode = 0 /\ proc = <<>>)

\* C5 (as claimed): an output directory that exists when an invocation starts
\* is one whose external program ran to completion in an earlier invocation.
C5_Claim ==
    \A d \in hist.startDirs : d \in hist.completed

\* the largest training step among the checkpoint-metadata files of the models
\* directory, read from the file names
StepOf(name) ==
    LET dash == Max(Positions(name, "-"))
        dot  == CHOOSE k \in Positions(name, ".") :
                    k > dash /\ \A m \in Positions(name, ".") : m > dash => k <= m
    IN  IntOf(SubSeq(name, dash + 1, dot - 1))

MetaFiles(files) == {f \in files : f[Len(f)] = "meta" /\ "ckpt" \in {f[k] : k \in 1..Len(f)}}

LargestStep(files) == Max({StepOf(f) : f \in MetaFiles(files)})

\* C6 (as claimed): without -i, the inference_iter written to the temporary
\* configuration is the largest iteration among the checkpoints present.
C6_Claim ==
    (args.training_iter = None /\ hist.baseWritten)
        => get(read(EmptyConfig, tmpFile), "INFERENCE", "inference_iter")
               = IntText(LargestStep(modelsDir))

\* C7 (as claimed): on an unreadable base configuration, or one without a
\* model_dir key, the invocation writes no temporary configuration, creates no
\* output directory and dispatches nothing, whatever the other arguments.
C7_Claim ==
    (~baseFile.ok \/ ~has_option(read(EmptyConfig, baseFile), "SYSTEM", "model_dir"))
        => /\ ~hist.baseWritten
           /\ tmpFile = NoFile
           /\ dirs = {}
           /\ hist.spawned = <<>>

\* the base configuration names the model directory
NamesModelDir(file) == file.ok /\ extract_model_directory(file).val = ModelDirPath

\* C8 (as claimed): on a models directory without checkpoint-metadata files the
\* scanner raises a dedicated no-checkpoints-found error.
C8_Claim ==
    (pc = "Scanned" /\ NamesModelDir(baseFile) /\ MetaFiles(modelsDir) = {})
        => scan.err = "NoCheckpointsFound"

\* C9: on a non-empty set of checkpoint-metadata files the scanner returns the
\* largest training step, compared as integers ({5, 20, 100} gives 100), and
\* the call changes nothing on disk.
C9_LatestIsNumericMax ==
    [][pc = "Scan" =>
          /\ modelsDir' = modelsDir
          /\ baseFile' = baseFile
          /\ tmpFile' = tmpFile
          /\ dirs' = dirs
          /\ (NamesModelDir(baseFile) /\ MetaFiles(modelsDir) # {})
                => /\ scan'.err = "none"
                   /\ scan'.val = LargestStep(modelsDir)
                   /\ \A f \in MetaFiles(modelsDir) : StepOf(f) <= scan'.val
          /\ (NamesModelDir(baseFile)
                /\ {StepOf(f) : f \in MetaFiles(modelsDir)} = {5, 20, 100})
                => scan'.val = 100
      ]_vars

C9_Witness ==
    /\ pc = "Scanned"
    /\ scan.err = "none"
    /\ scan.val = 100
    /\ {StepOf(f) : f \in MetaFiles(modelsDir)} = {5, 20, 100}

\* the program the method flag stands for
ProgramFor(method) ==
    CASE method = "multi" -> "net_multitask.py"
      [] method = "class" -> "net_classify.py"
      [] OTHER -> "net_regress.py"

\* C10: every argument list handed to call, and every process running, is
\* [interpreter, program, 'inference', '-c', temporary config path] with the
\* program fixed by the method flag: multi-task for 'multi', classification
\* for 'class', regression for anything else.
C10_DispatchByMethod ==
    LET expected == <<"python", ProgramFor(args.method), "inference", "-c", "config_tmp.ini">>
    IN  /\ \A e \in 1..Len(hist.spawned) : hist.spawned[e].argv = expected
        /\ \A e \in 1..Len(proc) : proc[e] = expected

C10_Witness ==
    /\ args.method = "foo"
    /\ Len(hist.spawned) = 2
    /\ Len(proc) = 1
    /\ proc[1][2] = "net_regress.py"

\* the evaluation set a flag stands for
EvalSetFor(flag) ==
    CASE flag = "T" -> "training"
      [] flag = "V" -> "validation"
      [] OTHER -> "inference"

\* the temporary configuration as the external program parses it
TmpConfig == read(EmptyConfig, tmpFile)

\* what C11 requires of the temporary configuration file
C11_Written(file) ==
    LET tmp == read(EmptyConfig, file)
    IN  /\ has_option(tmp, "INFERENCE", "dataset_to_infer")
        /\ get(tmp, "INFERENCE", "dataset_to_infer")
              = <<EvalSetFor(args.evaluation_set)>>

\* C11: the flag resolves to training for T, validation for V and inference
\* for I and for anything else; every write of the temporary configuration
\* leaves the resolved value as its dataset_to_infer, and the resolved value
\* is the second path component of every output directory of the invocation.
C11_EvalSetResolved ==
    /\ [][tmpFile' # tmpFile => C11_Written(tmpFile')]_vars
    /\ [](LET expected == EvalSetFor(args.evaluation_set)
          IN  /\ \A k \in 1..Len(hist.considered) :
                    SubSeq(hist.considered[k], 1, 4) = <<"output", "/", expected, "/">>
              /\ \A d \in dirs : d[3] = expected)

C11_Witness ==
    /\ args.evaluation_set = "Z"
    /\ pc = "Done"
    /\ Len(hist.considered) = 2
    /\ get(TmpConfig, "INFERENCE", "dataset_to_infer") = <<"inference">>
    /\ \E d \in dirs : d[3] = "inference"

OutsideInference(section) == section.name # "INFERENCE"

\* the options of INFERENCE other than save_seg_dir, in order
InferenceKept(c) ==
    LET NotSaveSegDir(opt) == opt[1] # "save_seg_dir"
    IN  SelectSeq(c[CHOOSE j \in SectionIndex(c, "INFERENCE") : TRUE].opts, NotSaveSegDir)

\* what C12 requires of the temporary configuration file, given the
\* configuration written before the loop
C12_Kept(file, written) ==
    LET tmp  == read(EmptyConfig, file)
        kept == InferenceKept(tmp)
        Value(k) == kept[CHOOSE j \in OptIndex(kept, k) : TRUE][2]
    IN  /\ SelectSeq(tmp, OutsideInference)
             = SelectSeq(read(EmptyConfig, baseFile), OutsideInference)
        /\ has_section(tmp, "INFERENCE")
        /\ kept = InferenceKept(written)
        /\ \A k \in {"dataset_to_infer", "inference_iter", "border",
                     "output_interp_order", "spatial_window_size"} :
              OptIndex(kept, k) # {}
        /\ Value("dataset_to_infer") = <<EvalSetFor(args.evaluation_set)>>
        /\ Value("inference_iter") = training_iter
        /\ Value("border") = <<"(", "0", ",", " ", "0", ",", " ", "0", ")">>
        /\ Value("output_interp_order") = <<"-", "1">>
        /\ Value("spatial_window_size")
             = <<"(", "2", "0", "0", ",", " ", "2", "0", "0", ")">>

\* C12: every write of the temporary configuration, the first one and each
\* per-repetition rewrite, leaves a file whose sections other than INFERENCE
\* are those of the base configuration file with the same keys and values,
\* and whose INFERENCE keys other than save_seg_dir have the values written
\* before the loop: the resolved evaluation set, the resolved iteration,
\* (0, 0, 0), -1 and (200, 200); the file changes in no other way, and once
\* written it stays readable.
C12_OnlySaveSegDirChanges ==
    /\ [][tmpFile' # tmpFile => (hist'.baseWritten /\ C12_Kept(tmpFile', hist'.baseConfig))]_vars
    /\ [](hist.baseWritten => tmpFile.ok)

C12_Witness ==
    /\ pc = "Done"
    /\ Cardinality(hist.rewritten) = 3
    /\ has_section(read(EmptyConfig, baseFile), "INFERENCE")
    /\ has_section(TmpConfig, "NETWORK")
    /\ get(TmpConfig, "INFERENCE", "save_seg_dir") = output_dir

\* the base configuration files that have SYSTEM.model_dir
WithModelDir ==
    {f \in BaseFiles : has_option(read(EmptyConfig, f), "SYSTEM", "model_dir")}

ResolutionOver == pc \notin {"ReadConfig", "ResolveIteration"}

C14_OneProcessAtATime ==
    /\ [](Len(proc) <= 1)
    /\ [][Len(proc) > 0 =>
             /\ tmpFile' = tmpFile
             /\ dirs' = dirs
             /\ hist'.spawned = hist.spawned
             /\ hist'.considered = hist.considered
             /\ proc' = <<>>
         ]_vars

C14_Witness ==
    /\ Len(proc) = 1
    /\ pc = "Running"
    /\ i = 2
    /\ hist.rewritten = {0, 1, 2}
    /\ Len(hist.spawned) = 3

\* C15: every dispatch finds, in the temporary configuration it is pointed at,
\* save_seg_dir equal to the output directory of its index; this invocation
\* created that directory for this index (it was not on disk when the
\* invocation started and it is there now); no two dispatches of the invocation
\* have the same directory; the file still says so while the process runs.
C15_FreshDirPerDispatch ==
    /\ \A e \in 1..Len(hist.spawned) :
          LET r == hist.spawned[e]
          IN  /\ r.index + 1 <= Len(hist.considered)
              /\ r.save_seg_dir = hist.considered[r.index + 1]
              /\ IntOf(SubSeq(r.save_seg_dir, 6, Len(r.save_seg_dir))) = r.index
              /\ r.save_seg_dir \notin hist.startDirs
              /\ r.save_seg_dir \in dirs
              /\ r.index \in hist.created
    /\ \A e, f \in 1..Len(hist.spawned) :
          e # f => hist.spawned[e].save_seg_dir # hist.spawned[f].save_seg_dir
    /\ pc = "Running" =>
          get(TmpConfig, "INFERENCE", "save_seg_dir")
              = hist.spawned[Len(hist.spawned)].save_seg_dir

C15_Witness ==
    /\ inv = 2
    /\ hist.startDirs # {}
    /\ Len(hist.spawned) = 2
    /\ hist.spawned[1].index = 1
    /\ hist.spawned[2].save_seg_dir = output_dir
    /\ pc = "Running"

\* C16: within one invocation the indices dispatched are strictly increasing
\* in the order of dispatch, so none is dispatched twice, whether its dispatch
\* failed or not, and there are never more than N dispatches.
C16_NoRetry ==
    /\ \A e, f \in 1..Len(hist.spawned) :
          e < f => hist.spawned[e].index < hist.spawned[f].index
    /\ \A e \in 1..Len(hist.spawned) : hist.spawned[e].index \in Indices
    /\ Len(hist.spawned) <= args.n_evaluations

C16_Witness ==
    /\ pc = "Done"
    /\ faults = 1
    /\ Len(hist.spawned) = 3
    /\ Cardinality(hist.completed) = 2
    /\ exitCode = 0

\* C17: no step of the driver removes an output directory or the temporary
\* configuration file; the output directory of every index the loop has left
\* behind is on disk, whether its dispatch failed or not; the temporary
\* configuration file exists when the driver is Done.
C17_NothingDeleted ==
    /\ [][dirs \subseteq dirs' /\ (tmpFile.ok => tmpFile'.ok)]_vars
    /\ [](\A k \in 1..Len(hist.considered) : k <= i => hist.considered[k] \in dirs)
    /\ [](pc = "Done" => tmpFile.ok)

C17_Witness ==
    /\ pc = "Done"
    /\ inv = 1
    /\ faults = 1
    /\ Cardinality(dirs) = 3
    /\ Cardinality(hist.completed) = 2
    /\ tmpFile.ok

====
